---- MODULE Spec2Model ----
(***************************************************************************)
(* Symbolic expression trees (src/expressions/expressions.py): the node    *)
(* model with its constructors and overloaded operators, the rendering     *)
(* __str__, structural equality __eq__, the single-dispatch differentiate  *)
(* and the explicit-stack postorder traversal postvisitor.                 *)
(*                                                                         *)
(* Three specifications share the variables:                               *)
(*   Spec      the object heap, grown by constructors and operators;       *)
(*   SpecVisit one run of postvisitor over an expression graph, one loop   *)
(*             iteration per step;                                         *)
(*   SpecFn    the pure functions differentiate and __str__ applied to     *)
(*             expressions drawn from a bounded set.                       *)
(***************************************************************************)
EXTENDS Integers, Sequences, FiniteSets, TLC

VARIABLES
    heap,     \* the objects built so far: a node's id is its index
    last,     \* the last construction call and the node it returned
    expr,     \* postvisitor: the root the traversal was called on
    stack,    \* postvisitor: the work stack, top at the end
    visited,  \* postvisitor: ids of the nodes visit was invoked on
    results,  \* postvisitor: id -> cached result
    calls,    \* the ids visit was invoked on, in invocation order
    pc,       \* postvisitor: "idle", "loop", "done" or "KeyError"
    ret,      \* postvisitor: the returned value
    fexpr,    \* the expression handed to differentiate / str
    farg,     \* differentiate: the positional arguments after expr (*args)
    fvar,     \* differentiate: the keyword argument var
    fres,     \* differentiate: what the call returned or raised
    sres,     \* str: the rendered text
    fpc,      \* "idle", "input", "differentiated" or "rendered"
    fcount    \* how many times differentiate was applied in a row

vars == <<heap, last, expr, stack, visited, results, calls, pc, ret,
          fexpr, farg, fvar, fres, sres, fpc, fcount>>

buildVars == <<heap, last>>
visitVars == <<expr, stack, visited, results, calls, pc, ret>>
fnVars == <<fexpr, farg, fvar, fres, sres, fpc, fcount>>

(***************************************************************************)
(* Bounds of the model.                                                    *)
(***************************************************************************)
\* objects on the heap of Spec
MaxNodes == 3
\* nodes of the expression graph SpecVisit traverses
MaxDag == 4
\* operator nodes of an expression handed to differentiate / str
MaxOps == 2
\* differentiate applied to its own result at most this many times
MaxRepeat == 2

\* numeric literals and symbol names a caller writes
NumLits == {1}
Names == {"x"}
\* the absent keyword argument (var=None)
None == "None"

(***************************************************************************)
(* The node model.  A node is a record                                     *)
(*   tag       the class: "Number", "Symbol", "Add", "Sub", "Mul", "Div",  *)
(*             "Pow"                                                       *)
(*   num, flt  Number.value: the number and whether it is a float          *)
(*   name      Symbol.value                                                *)
(*   operands  the tuple self.operands                                     *)
(* On the heap an operand is a reference to an object (kind "ref", its id) *)
(* or a bare Python number that is no Expression (kind "raw").             *)
(***************************************************************************)
Classes == {"Add", "Sub", "Mul", "Div", "Pow"}

Ref(i) == [kind |-> "ref", id |-> i, num |-> 0]
Raw(v) == [kind |-> "raw", id |-> 0, num |-> v]

\* Expression.__init__: the operands are stored as given
ExpressionInit(cls, ops) ==
    [tag |-> cls, num |-> 0, flt |-> FALSE, name |-> "", operands |-> ops]

\* Number.__init__
NumberInit(v) ==
    [tag |-> "Number", num |-> v, flt |-> FALSE, name |-> "", operands |-> <<>>]

\* Symbol.__init__
SymbolInit(s) ==
    [tag |-> "Symbol", num |-> 0, flt |-> FALSE, name |-> s, operands |-> <<>>]

\* Add/Sub/Mul/Div/Pow.__init__(left, right): super().__init__((left, right))
OperatorInit(cls, left, right) == ExpressionInit(cls, <<left, right>>)

\* the class an overloaded operator constructs
OpClass(op) ==
    CASE op = "+" -> "Add" [] op = "-" -> "Sub" [] op = "*" -> "Mul"
      [] op = "/" -> "Div" [] op = "**" -> "Pow"

OpSymbols == {"+", "-", "*", "/", "**"}

\* the operands a caller can pass: an existing object or a numeric literal
Operands(h) == {Ref(i) : i \in 1..Len(h)} \cup {Raw(v) : v \in NumLits}

\* _coerce(value): the heap after the call and the reference returned
Coerce(h, value) ==
    IF value.kind = "ref"
    THEN [heap |-> h, ref |-> value]
    ELSE [heap |-> Append(h, NumberInit(value.num)), ref |-> Ref(Len(h) + 1)]

\* __add__, __sub__, ...: Cls(self, self._coerce(other))
BinOperands(self, coerced) == <<self, coerced>>

\* __radd__, __rsub__, ...: Cls(self._coerce(other), self)
\* (the reflected form building the operands in the order of the plain form)
RBinOperandsSwapped(self, coerced) == <<self, coerced>>
RBinOperands(self, coerced) == <<coerced, self>>

NoCall ==
    [op |-> "none", sym |-> "", cls |-> "", self |-> 0, other |-> Raw(0), res |-> 0]

InitBuild == heap = <<>> /\ last = NoCall
IdleVisit ==
    /\ expr = 0 /\ stack = <<>> /\ visited = {} /\ results = <<>>
    /\ calls = <<>> /\ pc = "idle" /\ ret = <<>>
IdleFn ==
    /\ fexpr = NumberInit(0) /\ farg = <<>> /\ fvar = None
    /\ fres = NumberInit(0) /\ sres = "" /\ fpc = "idle" /\ fcount = 0

\* Number(v)
NewNumber(v) ==
    /\ Len(heap) < MaxNodes
    /\ heap' = Append(heap, NumberInit(v))
    /\ last' = [op |-> "Number", sym |-> "", cls |-> "Number", self |-> 0, other |-> Raw(v),
                res |-> Len(heap) + 1]
    /\ UNCHANGED <<visitVars, fnVars>>

\* Symbol(s)
NewSymbol(s) ==
    /\ Len(heap) < MaxNodes
    /\ heap' = Append(heap, SymbolInit(s))
    /\ last' = [op |-> "Symbol", sym |-> "", cls |-> "Symbol", self |-> 0, other |-> Raw(0),
                res |-> Len(heap) + 1]
    /\ UNCHANGED <<visitVars, fnVars>>

\* Add(left, right), Sub(left, right), ...: the explicit constructor
Construct(cls, left, right) ==
    /\ Len(heap) < MaxNodes
    /\ heap' = Append(heap, OperatorInit(cls, left, right))
    /\ last' = [op |-> "ctor", sym |-> "", cls |-> cls, self |-> 0, other |-> Raw(0),
                res |-> Len(heap) + 1]
    /\ UNCHANGED <<visitVars, fnVars>>

\* self op other, self an Expression: __add__ .. __pow__
Overload(op, self, other) ==
    LET c == Coerce(heap, other)
        ops == BinOperands(Ref(self), c.ref)
    IN  /\ Len(c.heap) < MaxNodes
        /\ heap' = Append(c.heap, OperatorInit(OpClass(op), ops[1], ops[2]))
        /\ last' = [op |-> "binop", sym |-> op, cls |-> OpClass(op), self |-> self,
                    other |-> other, res |-> Len(c.heap) + 1]
        /\ UNCHANGED <<visitVars, fnVars>>

\* other op self, other no Expression: __radd__ .. __rpow__
ROverload(op, self, other) ==
    LET c == Coerce(heap, other)
        ops == RBinOperands(Ref(self), c.ref)
    IN  /\ Len(c.heap) < MaxNodes
        /\ heap' = Append(c.heap, OperatorInit(OpClass(op), ops[1], ops[2]))
        /\ last' = [op |-> "rbinop", sym |-> op, cls |-> OpClass(op), self |-> self,
                    other |-> other, res |-> Len(c.heap) + 1]
        /\ UNCHANGED <<visitVars, fnVars>>

Init == InitBuild /\ IdleVisit /\ IdleFn

\* the heap has room for one more object
Room == Len(heap) < MaxNodes

Next ==
    \/ Room /\ \E v \in NumLits : NewNumber(v)
    \/ Room /\ \E s \in Names : NewSymbol(s)
    \/ Room /\ \E cls \in Classes : \E l, r \in Operands(heap) :
          Construct(cls, l, r)
    \/ Room /\ \E op \in OpSymbols : \E e \in 1..Len(heap) :
          \E o \in Operands(heap) : Overload(op, e, o)
    \/ Room /\ \E op \in OpSymbols : \E e \in 1..Len(heap) :
          \E v \in NumLits : ROverload(op, e, Raw(v))

Spec == Init /\ [][Next]_vars

\* C7: every operator node built by an explicit constructor or an
\* overloaded operator holds exactly two operands and both are Expression
\* nodes; a numeric literal given to a constructor is stored as a Number
\* node, never as a bare number.
C7_OperandsAreExpressions ==
    \A i \in 1..Len(heap) :
       heap[i].tag \in Classes =>
          /\ Len(heap[i].operands) = 2
          /\ \A k \in 1..2 :
                /\ heap[i].operands[k].kind = "ref"
                /\ heap[i].operands[k].id \in 1..Len(heap)

\* the class the claim gives each operator symbol
ClassOfSymbol(sym) ==
    CASE sym = "+" -> "Add" [] sym = "-" -> "Sub" [] sym = "*" -> "Mul"
      [] sym = "/" -> "Div" [] sym = "**" -> "Pow" [] OTHER -> "?"

\* C8: e op v builds a new node of the operator's class with operands
\* (e, Number(v)) and v op e one with operands (Number(v), e); an operand
\* that is an Expression already is stored as the same object; no object
\* that existed before the call is changed.
C8_OverloadOperandOrder ==
    [][(heap' # heap /\ last'.op \in {"binop", "rbinop"}) =>
         LET r == last'.res
             e == last'.self
             o == last'.other
         IN  /\ r = Len(heap') /\ r > Len(heap)
             /\ \A i \in 1..Len(heap) : heap'[i] = heap[i]
             /\ heap'[r].tag = ClassOfSymbol(last'.sym)
             /\ o.kind = "raw" =>
                   /\ Len(heap') = Len(heap) + 2
                   /\ heap'[r - 1] = NumberInit(o.num)
                   /\ heap'[r].operands =
                        IF last'.op = "binop" THEN <<Ref(e), Ref(r - 1)>>
                                             ELSE <<Ref(r - 1), Ref(e)>>
             /\ o.kind = "ref" =>
                   /\ Len(heap') = Len(heap) + 1
                   /\ last'.op = "binop"
                   /\ heap'[r].operands = <<Ref(e), o>>
    ]_vars

\* 1 - x was evaluated: the new Sub node holds the Number made of 1, then x
C8_Witness ==
    /\ last.op = "rbinop"
    /\ last.sym = "-"
    /\ heap[last.self].tag = "Symbol"
    /\ heap[last.res].tag = "Sub"
    /\ heap[last.res - 1] = NumberInit(1)
    /\ heap[last.res].operands = <<Ref(last.res - 1), Ref(last.self)>>

(***************************************************************************)
(* postvisitor(expr, visit): SpecVisit.                                    *)
(* The caller first builds a graph whose operands are all references (an   *)
(* expression graph), then calls postvisitor on its newest node, so older  *)
(* nodes may be unreachable from the root.  visit is the free pure         *)
(* function: its result is the term built from the node and the child      *)
(* results it was given.                                                   *)
(***************************************************************************)
VisitTerminals == {NumberInit(1), SymbolInit("x")}
VisitClasses == {"Add", "Mul"}

\* the nodes that can be built over the objects of heap h
NodesOver(h) ==
    VisitTerminals \cup
    {OperatorInit(cls, Ref(i), Ref(j)) : cls \in VisitClasses, i, j \in 1..Len(h)}

\* getattr(current, 'operands', ()) as object ids
OperandIds(h, i) == [k \in 1..Len(h[i].operands) |-> h[i].operands[k].id]

\* visit(current, *operands_results)
Visit(node, operandsResults) == [node |-> node, args |-> operandsResults]

\* line 226: id(current) in visited
\* (the test left out)
InVisitedNever(id, vis) == FALSE
InVisited(id, vis) == id \in vis

\* line 231: [results[id(op)] for op in current.operands]
\* (the results taken in the order the operands were pushed)
OperandsResultsReversed(ids, res) ==
    [k \in 1..Len(ids) |-> res[ids[Len(ids) + 1 - k]]]
OperandsResults(ids, res) == [k \in 1..Len(ids) |-> res[ids[k]]]

\* the sequence s in reverse order
Reversed(s) == [k \in 1..Len(s) |-> s[Len(s) + 1 - k]]

\* the entries of s that are not in vis, in order
RECURSIVE SelectUnvisited(_, _)
SelectUnvisited(s, vis) ==
    IF s = <<>> THEN <<>>
    ELSE IF Head(s) \notin vis
         THEN <<Head(s)>> \o SelectUnvisited(Tail(s), vis)
         ELSE SelectUnvisited(Tail(s), vis)

\* lines 237-239: what the else branch pushes after (current, True)
PushedOperands(ids, vis) ==
    LET todo == SelectUnvisited(Reversed(ids), vis)
    IN  [k \in 1..Len(todo) |-> [id |-> todo[k], children_visited |-> FALSE]]

Top == stack[Len(stack)]
Popped == SubSeq(stack, 1, Len(stack) - 1)

\* the caller constructs one more node of the graph
Build(nd) ==
    /\ pc = "idle"
    /\ Len(heap) < MaxDag
    /\ heap' = Append(heap, nd)
    /\ UNCHANGED <<last, visitVars, fnVars>>

\* lines 219-221
Start ==
    /\ pc = "idle"
    /\ heap # <<>>
    /\ expr' = Len(heap)
    /\ visited' = {}
    /\ stack' = <<[id |-> Len(heap), children_visited |-> FALSE]>>
    /\ results' = <<>>
    /\ pc' = "loop"
    /\ UNCHANGED <<heap, last, calls, ret, fnVars>>

\* lines 224-227: the popped node was visited already
LoopSkip ==
    /\ pc = "loop" /\ stack # <<>>
    /\ InVisited(Top.id, visited)
    /\ stack' = Popped
    /\ UNCHANGED <<heap, last, expr, visited, results, calls, pc, ret, fnVars>>

\* lines 224-234: the children were pushed before; visit the node
LoopVisit ==
    /\ pc = "loop" /\ stack # <<>>
    /\ ~InVisited(Top.id, visited)
    /\ Top.children_visited
    /\ stack' = Popped
    /\ LET ids == OperandIds(heap, Top.id)
       IN  IF \A k \in 1..Len(ids) : ids[k] \in DOMAIN results
           THEN /\ results' = (Top.id :> Visit(Top.id, OperandsResults(ids, results)))
                                @@ results
                /\ visited' = visited \cup {Top.id}
                /\ calls' = Append(calls, Top.id)
                /\ pc' = pc
           ELSE /\ pc' = "KeyError"
                /\ UNCHANGED <<results, visited, calls>>
    /\ UNCHANGED <<heap, last, expr, ret, fnVars>>

\* lines 224-229, 235-239: first pop of the node; push it back, then its
\* operands that are not visited yet, the first operand on top
LoopExpand ==
    /\ pc = "loop" /\ stack # <<>>
    /\ ~InVisited(Top.id, visited)
    /\ ~Top.children_visited
    /\ stack' = Popped \o <<[id |-> Top.id, children_visited |-> TRUE]>>
                  \o PushedOperands(OperandIds(heap, Top.id), visited)
    /\ UNCHANGED <<heap, last, expr, visited, results, calls, pc, ret, fnVars>>

\* lines 223, 241: the stack is empty; return results[id(expr)]
Return ==
    /\ pc = "loop" /\ stack = <<>>
    /\ IF expr \in DOMAIN results
       THEN ret' = results[expr] /\ pc' = "done"
       ELSE ret' = ret /\ pc' = "KeyError"
    /\ UNCHANGED <<heap, last, expr, stack, visited, results, calls, fnVars>>

NextVisit ==
    \/ \E nd \in NodesOver(heap) : Build(nd)
    \/ Start
    \/ LoopSkip
    \/ LoopVisit
    \/ LoopExpand
    \/ Return

SpecVisit == Init /\ [][NextVisit]_vars

\* the nodes reachable from node i through operands
RECURSIVE Reachable(_, _)
Reachable(h, i) ==
    {i} \cup UNION {Reachable(h, h[i].operands[k].id) : k \in 1..Len(h[i].operands)}

\* the naive recursive fold F(n) = visit(n, F(left), F(right))
RECURSIVE Fold(_, _)
Fold(h, i) ==
    Visit(i, [k \in 1..Len(h[i].operands) |-> Fold(h, h[i].operands[k].id)])

CalledIds == {calls[k] : k \in 1..Len(calls)}

\* C1: one run of postvisitor invokes visit exactly once on every node
\* object reachable from expr, shared operands included, and on a node only
\* after visit was invoked on each of its operands; no lookup of a cached
\* result fails.
C1_VisitOnceAfterOperands ==
    /\ pc # "KeyError"
    /\ \A i, j \in 1..Len(calls) : calls[i] = calls[j] => i = j
    /\ \A i \in 1..Len(calls) :
          \A k \in 1..Len(heap[calls[i]].operands) :
             \E j \in 1..(i - 1) : calls[j] = heap[calls[i]].operands[k].id
    /\ visited = CalledIds
    /\ pc = "loop" => CalledIds \subseteq Reachable(heap, expr)
    /\ pc = "done" => CalledIds = Reachable(heap, expr)

\* a finished run over a graph whose root holds one operator node twice and
\* where a terminal is the operand of two parents
C1_Witness ==
    /\ pc = "done"
    /\ Len(heap) >= 3
    /\ heap[expr].operands = <<Ref(expr - 1), Ref(expr - 1)>>
    /\ heap[expr - 1].operands # <<>>
    /\ \E t \in 1..Len(heap) :
          Cardinality({p \in CalledIds : \E k \in 1..Len(heap[p].operands) :
                          heap[p].operands[k].id = t}) >= 2

\* C2: postvisitor returns the result computed for the root, which is the
\* naive recursive fold of visit over the graph; every cached result is the
\* fold of its node, so a shared operand gives every parent the same result
\* and each node gets its operands' results in operand order.
C2_ReturnsFold ==
    /\ \A i \in DOMAIN results : results[i] = Fold(heap, i)
    /\ pc = "done" => ret = Fold(heap, expr)

\* a finished run whose root has two different operands, one of them an
\* operator node that another parent holds as well
C2_Witness ==
    /\ pc = "done"
    /\ ret = Fold(heap, expr)
    /\ Len(heap[expr].operands) = 2
    /\ heap[expr].operands[1] # heap[expr].operands[2]
    /\ \E s \in 1..Len(heap) :
          /\ heap[s].operands # <<>>
          /\ \E p, q \in CalledIds :
                /\ p # q
                /\ \E k \in 1..2 : heap[p].operands # <<>> /\ heap[p].operands[k].id = s
                /\ \E k \in 1..2 : heap[q].operands # <<>> /\ heap[q].operands[k].id = s

(***************************************************************************)
(* The pure functions: SpecFn.                                             *)
(* Here an expression is a value: a node record whose operands are the     *)
(* operand expressions themselves.  A bare Python number that is no        *)
(* Expression has tag "raw"; a raised NotImplementedError is a record with *)
(* tag "NotImplementedError" and the message in name.                      *)
(***************************************************************************)
\* Number(value) for an int (float = FALSE) or a float (float = TRUE) value
Num(v, float) ==
    [tag |-> "Number", num |-> v, flt |-> float, name |-> "", operands |-> <<>>]

\* a Python int or float that is not wrapped in a node
RawNum(v, float) ==
    [tag |-> "raw", num |-> v, flt |-> float, name |-> "", operands |-> <<>>]

Raise(message) ==
    [tag |-> "NotImplementedError", num |-> 0, flt |-> FALSE, name |-> message,
     operands |-> <<>>]

IsFailure(r) == r.tag = "NotImplementedError"

\* line 156
CannotDifferentiate == Raise("Cannot differentiate")
\* line 214
VariableExponent == Raise("Differentiating variable exponents is not supported")

\* isinstance(x, Expression)
IsExpression(x) == x.tag \in Classes \cup {"Number", "Symbol"}

\* Expression.__eq__, and == on the numbers and tuples it compares
RECURSIVE PyEq(_, _)
PyEq(a, b) ==
    IF a.tag = "raw" /\ b.tag = "raw" THEN a.num = b.num
    ELSE /\ a.tag = b.tag
         /\ IsExpression(a)
         /\ a.num = b.num /\ a.name = b.name
         /\ Len(a.operands) = Len(b.operands)
         /\ \A k \in 1..Len(a.operands) : PyEq(a.operands[k], b.operands[k])

\* lines 159-163
\* (the name never compared)
DiffSymbolNever(e, var) == Num(0, TRUE)
DiffSymbol(e, var) == IF e.name = var THEN Num(1, TRUE) ELSE Num(0, TRUE)

\* lines 165-168
DiffNumber(e, var) == Num(0, TRUE)

\* line 176
SumRule(left_diff, right_diff) == OperatorInit("Add", left_diff, right_diff)

\* line 184
DifferenceRule(left_diff, right_diff) == OperatorInit("Sub", left_diff, right_diff)

\* line 192
\* (each derivative multiplied by its own operand)
ProductRuleSameSide(left, right, left_diff, right_diff) ==
    OperatorInit("Add", OperatorInit("Mul", left_diff, left),
                        OperatorInit("Mul", right_diff, right))
ProductRule(left, right, left_diff, right_diff) ==
    OperatorInit("Add", OperatorInit("Mul", left_diff, right),
                        OperatorInit("Mul", right_diff, left))

\* lines 200-202
QuotientRule(nume, deno, left_diff, right_diff) ==
    LET numerator == OperatorInit("Sub", OperatorInit("Mul", left_diff, deno),
                                         OperatorInit("Mul", nume, right_diff))
        denominator == OperatorInit("Pow", deno, Num(2, FALSE))
    IN  OperatorInit("Div", numerator, denominator)

\* line 212: exponent.value - 1 is passed to Pow as it is
PowerRule(base, exponent, base_diff) ==
    OperatorInit("Mul",
        OperatorInit("Mul", Num(exponent.num, exponent.flt),
                            OperatorInit("Pow", base,
                                         RawNum(exponent.num - 1, exponent.flt))),
        base_diff)

\* lines 213-214: the else branch of the Pow handler
\* (the exponent treated as a constant instead of raising)
PowOtherExponentZero(base, exponent) == Num(0, TRUE)
PowOtherExponent(base, exponent) == VariableExponent

\* differentiate(expr, *args, var=None): the handler of type(expr).  An
\* exception raised by a recursive call leaves the handler at once.
RECURSIVE differentiate(_, _, _)
differentiate(e, args, var) ==
    IF e.tag = "Symbol" THEN DiffSymbol(e, var)
    ELSE IF e.tag = "Number" THEN DiffNumber(e, var)
    ELSE IF e.tag \in {"Add", "Sub", "Mul", "Div"} THEN
        LET left == e.operands[1]
            right == e.operands[2]
            left_diff == differentiate(left, <<>>, var)
            right_diff == differentiate(right, <<>>, var)
        IN  IF IsFailure(left_diff) THEN left_diff
            ELSE IF IsFailure(right_diff) THEN right_diff
            ELSE CASE e.tag = "Add" -> SumRule(left_diff, right_diff)
                   [] e.tag = "Sub" -> DifferenceRule(left_diff, right_diff)
                   [] e.tag = "Mul" -> ProductRule(left, right, left_diff, right_diff)
                   [] e.tag = "Div" -> QuotientRule(left, right, left_diff, right_diff)
    ELSE IF e.tag = "Pow" THEN
        LET base == e.operands[1]
            exponent == e.operands[2]
        IN  IF exponent.tag = "Number"
            THEN LET base_diff == differentiate(base, <<>>, var)
                 IN  IF IsFailure(base_diff) THEN base_diff
                     ELSE PowerRule(base, exponent, base_diff)
            ELSE PowOtherExponent(base, exponent)
    ELSE CannotDifferentiate

\* str() of a non-negative int
Digit(d) ==
    CASE d = 0 -> "0" [] d = 1 -> "1" [] d = 2 -> "2" [] d = 3 -> "3"
      [] d = 4 -> "4" [] d = 5 -> "5" [] d = 6 -> "6" [] d = 7 -> "7"
      [] d = 8 -> "8" [] d = 9 -> "9"
RECURSIVE NatStr(_)
NatStr(n) == IF n < 10 THEN Digit(n) ELSE NatStr(n \div 10) \o Digit(n % 10)

\* str() of a Python number
NumStr(v, float) ==
    (IF v < 0 THEN "-" \o NatStr(-v) ELSE NatStr(v))
      \o (IF float THEN ".0" ELSE "")

\* the class attributes precedence and op_symbol
Precedence(cls) ==
    CASE cls \in {"Add", "Sub"} -> 1 [] cls \in {"Mul", "Div"} -> 2 [] cls = "Pow" -> 3
SymbolOf(cls) ==
    CASE cls = "Add" -> "+" [] cls = "Sub" -> "-" [] cls = "Mul" -> "*"
      [] cls = "Div" -> "/" [] cls = "Pow" -> "^"

\* getattr(operand, "precedence", 100)
PrecedenceOr100(x) == IF x.tag \in Classes THEN Precedence(x.tag) ELSE 100

\* lines 17-18: the text between the two operands.  The backslash ends the
\* source line inside the string literal, so the indentation of line 18 is
\* part of the text.
Infix(op_symbol) == " " \o op_symbol \o " " \o "              "

\* Expression.__str__ and _parenthesize, Number.__str__, Symbol.__str__
RECURSIVE Str(_)
Parenthesize(self, operand) ==
    IF ~IsExpression(operand) THEN NumStr(operand.num, operand.flt)
    ELSE IF PrecedenceOr100(operand) < Precedence(self.tag)
         THEN "(" \o Str(operand) \o ")"
         ELSE Str(operand)
Str(e) ==
    IF e.tag = "Number" THEN NumStr(e.num, e.flt)
    ELSE IF e.tag = "Symbol" THEN e.name
    ELSE Parenthesize(e, e.operands[1]) \o Infix(SymbolOf(e.tag))
           \o Parenthesize(e, e.operands[2])

\* the leaves of the expressions the calls are applied to
FnTerminals == {Num(3, FALSE), SymbolInit("x")}
FnRaws == {RawNum(2, FALSE)}
FnVars == {"x", "y"}

\* Cls(l, r) for every class and every pair of leaves, a bare number included
OneOperator ==
    {OperatorInit(cls, l, r) :
        cls \in Classes, l \in FnTerminals \cup FnRaws, r \in FnTerminals \cup FnRaws}

\* what a caller passes as the other operand of a constructor
SmallOperands == FnTerminals \cup FnRaws \cup OneOperator

\* the number of operator nodes of an expression
RECURSIVE CountOps(_)
CountOps(e) ==
    IF e.tag \in Classes
    THEN 1 + CountOps(e.operands[1]) + CountOps(e.operands[2])
    ELSE 0

InitFn ==
    /\ InitBuild
    /\ IdleVisit
    /\ fexpr \in {e \in FnTerminals \cup OneOperator : CountOps(e) <= MaxOps}
    /\ farg = <<>> /\ fvar = None /\ fres = Num(0, FALSE) /\ sres = ""
    /\ fpc = "input" /\ fcount = 0

\* the caller constructs Cls(fexpr, other) or Cls(other, fexpr)
Wrap(cls, other, onLeft) ==
    /\ fpc = "input"
    /\ CountOps(fexpr) + CountOps(other) + 1 <= MaxOps
    /\ fexpr' = IF onLeft THEN OperatorInit(cls, fexpr, other)
                          ELSE OperatorInit(cls, other, fexpr)
    /\ UNCHANGED <<buildVars, visitVars, farg, fvar, fres, sres, fpc, fcount>>

\* differentiate(fexpr, var=v)
DifferentiateKw(v) ==
    /\ fpc = "input"
    /\ farg' = <<>> /\ fvar' = v
    /\ fres' = differentiate(fexpr, <<>>, v)
    /\ fpc' = "differentiated" /\ fcount' = 1
    /\ UNCHANGED <<buildVars, visitVars, fexpr, sres>>

\* differentiate(fexpr, v): v is bound to *args, var keeps its default
DifferentiatePos(v) ==
    /\ fpc = "input"
    /\ farg' = <<v>> /\ fvar' = None
    /\ fres' = differentiate(fexpr, <<v>>, None)
    /\ fpc' = "differentiated" /\ fcount' = 1
    /\ UNCHANGED <<buildVars, visitVars, fexpr, sres>>

\* the same call on the expression the last call returned
Again ==
    /\ fpc = "differentiated"
    /\ ~IsFailure(fres)
    /\ fcount < MaxRepeat
    /\ fexpr' = fres
    /\ fres' = differentiate(fres, farg, fvar)
    /\ fcount' = fcount + 1
    /\ UNCHANGED <<buildVars, visitVars, farg, fvar, sres, fpc>>

\* str(fexpr)
Render ==
    /\ fpc = "input"
    /\ sres' = Str(fexpr)
    /\ fpc' = "rendered"
    /\ UNCHANGED <<buildVars, visitVars, fexpr, farg, fvar, fres, fcount>>

NextFn ==
    \/ CountOps(fexpr) < MaxOps /\ \E cls \in Classes : \E other \in SmallOperands :
          \E onLeft \in BOOLEAN : Wrap(cls, other, onLeft)
    \/ \E v \in FnVars : DifferentiateKw(v)
    \/ \E v \in FnVars : DifferentiatePos(v)
    \/ Again
    \/ Render

SpecFn == InitFn /\ [][NextFn]_vars

\* r is a node structurally equal to Number(v)
EqualsNumber(r, v) == IsExpression(r) /\ PyEq(r, Num(v, TRUE))

\* C3 as stated: with the variable name passed as the second positional
\* argument, Symbol(s) gives Number(1.0) when s is that name and
\* Number(0.0) when it is not, and a Number gives Number(0.0).
C3_PositionalVariable ==
    (fpc = "differentiated" /\ farg # <<>>) =>
       /\ (fexpr.tag = "Symbol" /\ fexpr.name = farg[1]) => EqualsNumber(fres, 1)
       /\ (fexpr.tag = "Symbol" /\ fexpr.name # farg[1]) => EqualsNumber(fres, 0)
       /\ fexpr.tag = "Number" => EqualsNumber(fres, 0)

\* C3 amended: with the variable name passed as the keyword argument var,
\* Symbol(s) gives Number(1.0) when s == var and Number(0.0) when not, and a
\* Number gives Number(0.0); a name passed as the second positional argument
\* is ignored, so every Symbol and every Number gives Number(0.0).
C3_KeywordVariable ==
    fpc = "differentiated" =>
       /\ (farg = <<>> /\ fexpr.tag = "Symbol" /\ fexpr.name = fvar)
             => EqualsNumber(fres, 1)
       /\ (farg = <<>> /\ fexpr.tag = "Symbol" /\ fexpr.name # fvar)
             => EqualsNumber(fres, 0)
       /\ (farg # <<>> /\ fexpr.tag = "Symbol") => EqualsNumber(fres, 0)
       /\ fexpr.tag = "Number" => EqualsNumber(fres, 0)

\* differentiate(Symbol("x"), var="x") returned Number(1.0)
C3_Witness ==
    /\ fpc = "differentiated"
    /\ fexpr = SymbolInit("x")
    /\ farg = <<>> /\ fvar = "x"
    /\ fres = Num(1, TRUE)

\* d(x): the derivative of an operand in the call that produced fres
D(x) == differentiate(x, <<>>, fvar)

\* C4: when both operands can be differentiated, Add, Sub, Mul and Div give
\* exactly Add(d(l), d(r)), Sub(d(l), d(r)), Add(Mul(d(l), r), Mul(d(r), l))
\* and Div(Sub(Mul(d(n), d), Mul(n, d(d))), Pow(d, Number(2))), unsimplified.
C4_UnsimplifiedRules ==
    (fpc = "differentiated" /\ fexpr.tag \in {"Add", "Sub", "Mul", "Div"}) =>
       LET l == fexpr.operands[1]
           r == fexpr.operands[2]
       IN  (~IsFailure(D(l)) /\ ~IsFailure(D(r))) =>
              /\ fexpr.tag = "Add" => fres = OperatorInit("Add", D(l), D(r))
              /\ fexpr.tag = "Sub" => fres = OperatorInit("Sub", D(l), D(r))
              /\ fexpr.tag = "Mul" =>
                    fres = OperatorInit("Add", OperatorInit("Mul", D(l), r),
                                               OperatorInit("Mul", D(r), l))
              /\ fexpr.tag = "Div" =>
                    fres = OperatorInit("Div",
                              OperatorInit("Sub", OperatorInit("Mul", D(l), r),
                                                  OperatorInit("Mul", l, D(r))),
                              OperatorInit("Pow", r, Num(2, FALSE)))

\* Mul(Symbol("x"), Number(3)) differentiated with respect to x
C4_Witness ==
    /\ fpc = "differentiated"
    /\ fvar = "x"
    /\ fexpr = OperatorInit("Mul", SymbolInit("x"), Num(3, FALSE))
    /\ fres = OperatorInit("Add",
                 OperatorInit("Mul", Num(1, TRUE), Num(3, FALSE)),
                 OperatorInit("Mul", Num(0, TRUE), SymbolInit("x")))

\* C5: Pow(base, Number(k)) with a differentiable base gives a node
\* structurally equal to Mul(Mul(Number(k), Pow(base, Number(k-1))), d(base)).
C5_PowerRule ==
    (/\ fpc = "differentiated"
     /\ fexpr.tag = "Pow"
     /\ fexpr.operands[2].tag = "Number"
     /\ ~IsFailure(D(fexpr.operands[1]))) =>
       LET base == fexpr.operands[1]
           k == fexpr.operands[2].num
       IN  PyEq(fres,
                OperatorInit("Mul",
                   OperatorInit("Mul", Num(k, FALSE),
                                OperatorInit("Pow", base, Num(k - 1, FALSE))),
                   D(base)))

\* differentiation reaches a Pow whose exponent is no Number node
RECURSIVE ReachesOtherExponent(_)
ReachesOtherExponent(e) ==
    \/ e.tag = "Pow" /\ e.operands[2].tag # "Number"
    \/ e.tag = "Pow" /\ e.operands[2].tag = "Number"
         /\ ReachesOtherExponent(e.operands[1])
    \/ e.tag \in {"Add", "Sub", "Mul", "Div"}
         /\ \E k \in 1..2 : ReachesOtherExponent(e.operands[k])

\* differentiation reaches a bare number (the unsupported-kind failure)
RECURSIVE ReachesRaw(_)
ReachesRaw(e) ==
    \/ e.tag = "raw"
    \/ e.tag = "Pow" /\ e.operands[2].tag = "Number" /\ ReachesRaw(e.operands[1])
    \/ e.tag \in {"Add", "Sub", "Mul", "Div"}
         /\ \E k \in 1..2 : ReachesRaw(e.operands[k])

\* C6: Pow(base, exponent) with an exponent that is no Number node ends in
\* the variable-exponent failure for every base and variable, and so does
\* every expression in which differentiation reaches such a Pow (and no
\* other failure): the failure is not caught on the way up.
C6_VariableExponentFails ==
    fpc = "differentiated" =>
       /\ (fexpr.tag = "Pow" /\ fexpr.operands[2].tag # "Number")
             => fres = VariableExponent
       /\ (ReachesOtherExponent(fexpr) /\ ~ReachesRaw(fexpr))
             => fres = VariableExponent

\* x * (x ^ x): the failure of the nested Pow ends the outer call
C6_Witness ==
    /\ fpc = "differentiated"
    /\ fexpr = OperatorInit("Mul", SymbolInit("x"),
                  OperatorInit("Pow", SymbolInit("x"), SymbolInit("x")))
    /\ fres = VariableExponent

\* the rendering the claim describes: operands joined by single spaces
RECURSIVE ClaimedStr(_)
ClaimedStr(e) ==
    IF e.tag \in {"Number", "raw"} THEN NumStr(e.num, e.flt)
    ELSE IF e.tag = "Symbol" THEN e.name
    ELSE LET wrap(x) == IF x.tag \in Classes /\ Precedence(x.tag) < Precedence(e.tag)
                        THEN "(" \o ClaimedStr(x) \o ")"
                        ELSE ClaimedStr(x)
         IN  wrap(e.operands[1]) \o " " \o SymbolOf(e.tag) \o " " \o wrap(e.operands[2])

\* C9: an operator node renders as "<left> <symbol> <right>" with single
\* spaces, an operand in parentheses iff it is an operator node of strictly
\* lower precedence.
C9_RenderSingleSpaces ==
    (fpc = "rendered" /\ fexpr.tag \in Classes) => sres = ClaimedStr(fexpr)

\* only Expression operands, and every Pow exponent a Number node
RECURSIVE ConstantExponents(_)
ConstantExponents(e) ==
    /\ IsExpression(e)
    /\ e.tag \in Classes =>
          /\ ConstantExponents(e.operands[1])
          /\ ConstantExponents(e.operands[2])
          /\ e.tag = "Pow" => e.operands[2].tag = "Number"

\* C10: for an expression with only Expression operands and Number
\* exponents, differentiate succeeds and returns such an expression again,
\* so that differentiating the result never fails.
C10_ClosedUnderRepetition ==
    (fpc = "differentiated" /\ ConstantExponents(fexpr)) =>
       /\ ~IsFailure(fres)
       /\ ConstantExponents(fres)

====
